---- MODULE Spec2Model ----
(***************************************************************************)
(* Grandline API (src/main.py, src/schemas.py): route handlers over four   *)
(* document collections (marine, piratecrew, piratemember, event), the     *)
(* ObjectId <-> string codec, the dynamic filters of the list endpoints,   *)
(* the crew/member join, the leaderboard and the seeding routine.          *)
(*                                                                         *)
(* Strings that the code inspects character by character (identifiers)    *)
(* are sequences of one-character strings; other strings are TLA+ strings. *)
(* Optional[T] is <<>> (None) or <<v>>.  Bounties are in units of 100000   *)
(* Beli so that the fixture values fit a 32-bit integer.                   *)
(* Optional document fields that no handler reads (bio, description, role, *)
(* avatar_url, date, ...) are left out of the documents.                   *)
(*                                                                         *)
(* The handlers are coroutines that never await, so the event loop runs    *)
(* them one at a time: each handler is one action.  The store may become   *)
(* unreachable in the middle of a request (an outage after k store calls). *)
(* The admin gate is taken as passed.                                      *)
(***************************************************************************)
EXTENDS Integers, Sequences, FiniteSets, TLC

\* ---- bounds of the model ----
MaxSeedCalls == 2      \* seed_data calls per behaviour
MaxApiCreates == 1     \* successful create_* calls per behaviour
MaxSeedFailures == 1   \* seed_data calls cut short by the store per behaviour
OidBase == 10          \* native value of the first generated ObjectId

\* ---- program constants ----
OidHexLen == 24            \* str(ObjectId) is 24 hex digits
DefaultLeaderboardLimit == 10

None == <<>>
Some(v) == <<v>>

Min(a, b) == IF a < b THEN a ELSE b
Abs(a) == IF a < 0 THEN 0 - a ELSE a

\* ------------------------------------------------------------------
\* Identifier codec: bson.ObjectId(str) and str(ObjectId)
\* ------------------------------------------------------------------
HexLower == <<"0","1","2","3","4","5","6","7","8","9","a","b","c","d","e","f">>
HexUpper == <<"0","1","2","3","4","5","6","7","8","9","A","B","C","D","E","F">>

IsHexChar(c) == \E k \in 1..16 : HexLower[k] = c \/ HexUpper[k] = c
HexVal(c) == (CHOOSE k \in 1..16 : HexLower[k] = c \/ HexUpper[k] = c) - 1

RECURSIVE ShiftRight4(_, _)
ShiftRight4(n, k) == IF k = 0 \/ n = 0 THEN n ELSE ShiftRight4(n \div 16, k - 1)

\* str(oid): lower-case hex, most significant digit first, fixed width
Encode(oid) ==
  [i \in 1..OidHexLen |-> HexLower[(ShiftRight4(oid, OidHexLen - i) % 16) + 1]]

\* ObjectId(s) raises InvalidId unless s is 24 hex digits (either case)
ObjectIdValid(s) == Len(s) = OidHexLen /\ \A i \in 1..Len(s) : IsHexChar(s[i])

RECURSIVE FromHex(_)
FromHex(s) ==
  IF s = <<>> THEN 0
  ELSE FromHex(SubSeq(s, 1, Len(s) - 1)) * 16 + HexVal(s[Len(s)])

Decode(s) == FromHex(s)

\* the same identifier as a caller may also write it (hex digits in upper case)
ToUpper(s) == [i \in 1..Len(s) |-> IF IsHexChar(s[i]) THEN HexUpper[HexVal(s[i]) + 1] ELSE s[i]]

\* ------------------------------------------------------------------
\* Document normalizer
\* ------------------------------------------------------------------
to_str_id(doc) ==
  IF "_id" \in DOMAIN doc
  THEN [k \in (DOMAIN doc \ {"_id"}) \cup {"id"} |->
          IF k = "id" THEN Encode(doc["_id"]) ELSE doc[k]]
  ELSE doc

NormalizeAll(docs) == [i \in 1..Len(docs) |-> to_str_id(docs[i])]

\* ------------------------------------------------------------------
\* Store primitives (pymongo collection / cursor, database helpers)
\* ------------------------------------------------------------------
\* a filter is a function from field names to values; every key is an
\* equality constraint
Matches(doc, q) == \A k \in DOMAIN q : k \in DOMAIN doc /\ doc[k] = q[k]

Find(docs, q) == LET T(d) == Matches(d, q) IN SelectSeq(docs, T)

\* cursor.limit(n): 0 means no limit, a negative n means abs(n)
CursorLimit(docs, n) ==
  IF n = 0 THEN docs ELSE SubSeq(docs, 1, Min(Abs(n), Len(docs)))

\* cursor.sort("bounty", -1); the order of equal bounties is the server's
\* choice: tieFirst puts a document before (TRUE) or after (FALSE) the
\* documents of equal bounty that precede it in natural order
RECURSIVE InsertDesc(_, _, _)
InsertDesc(sorted, d, tieFirst) ==
  IF sorted = <<>> THEN <<d>>
  ELSE IF sorted[1].bounty < d.bounty \/ (tieFirst /\ sorted[1].bounty = d.bounty)
       THEN <<d>> \o sorted
       ELSE <<sorted[1]>> \o InsertDesc(Tail(sorted), d, tieFirst)

RECURSIVE SortByBountyDesc(_, _)
SortByBountyDesc(docs, tieFirst) ==
  IF docs = <<>> THEN <<>>
  ELSE InsertDesc(SortByBountyDesc(SubSeq(docs, 1, Len(docs) - 1), tieFirst),
                  docs[Len(docs)], tieFirst)

\* database.create_document(collection, data): insert with a fresh _id
create_document(docs, data, oid) == Append(docs, data @@ [_id |-> oid])

\* database.get_documents(collection, filter, limit)
get_documents(docs, q, limit) ==
  LET m == Find(docs, q)
  IN IF limit = None THEN m ELSE SubSeq(m, 1, Min(limit[1], Len(m)))

\* ------------------------------------------------------------------
\* Fixtures of seed_data
\* ------------------------------------------------------------------
MarineFixtures ==
  << [name |-> "Sakazuki (Akainu)", rank |-> "Fleet Admiral"],
     [name |-> "Borsalino (Kizaru)", rank |-> "Admiral"] >>

CrewFixtures ==
  << [name |-> "Straw Hat Pirates", sea |-> "Grand Line", crew_of_month |-> TRUE],
     [name |-> "Red-Haired Pirates", sea |-> "Grand Line", crew_of_month |-> FALSE],
     [name |-> "Arlong Pirates", sea |-> "East Blue", crew_of_month |-> FALSE] >>

\* crew is the key looked up in crew_map
MemberFixtures ==
  << [crew |-> "Straw Hat Pirates", name |-> "Monkey D. Luffy", bounty |-> 30000],
     [crew |-> "Straw Hat Pirates", name |-> "Roronoa Zoro", bounty |-> 11110],
     [crew |-> "Straw Hat Pirates", name |-> "Nami", bounty |-> 3660],
     [crew |-> "Red-Haired Pirates", name |-> "Shanks", bounty |-> 40489],
     [crew |-> "Arlong Pirates", name |-> "Arlong", bounty |-> 200] >>

EventFixtures ==
  << [title |-> "Battle of Marineford Anniversary", status |-> "upcoming"],
     [title |-> "Grandline Cup", status |-> "completed"] >>

\* crew_map = {name: cid for name, cid in crew_ids}; crew_map[name]
CrewMapGet(crew_ids, name) ==
  LET idx == {i \in 1..Len(crew_ids) : crew_ids[i][1] = name}
  IN crew_ids[CHOOSE i \in idx : \A j \in idx : j <= i][2]

\* ------------------------------------------------------------------
\* State
\* ------------------------------------------------------------------
VARIABLES
  store,         \* collection name -> documents in natural (insertion) order
  nextOid,       \* native value of the next generated ObjectId
  db,            \* "client" (database handle) | "none" (db is None)
  resp,          \* response not yet delivered ([op |-> "none"] if none);
                 \* before is the store as the handler found it
  seedCalls,     \* seed_data calls made
  apiCreates,    \* create_* calls that inserted
  seedFailures,  \* seed_data calls cut short by an unreachable store
  seedDone       \* some seed_data call has returned

vars == <<store, nextOid, db, resp, seedCalls, apiCreates, seedFailures, seedDone>>

Collections == {"marine", "piratecrew", "piratemember", "event"}

NoResp == [op |-> "none"]

Init ==
  /\ store = [c \in Collections |-> <<>>]
  /\ nextOid = OidBase
  /\ db \in {"client", "none"}
  /\ resp = NoResp
  /\ seedCalls = 0
  /\ apiCreates = 0
  /\ seedFailures = 0
  /\ seedDone = FALSE

\* ------------------------------------------------------------------
\* Inputs
\* ------------------------------------------------------------------
FirstId(c) == IF store[c] = <<>> THEN {} ELSE {store[c][1]["_id"]}

\* native identifiers probed by callers: one never generated, and stored ones
ProbeOids == {OidBase - 1} \cup FirstId("piratecrew") \cup FirstId("event")

MalformedIds == { <<"0", "a">>, [i \in 1..OidHexLen |-> "g"] }

IdInputs ==
  {Encode(n) : n \in ProbeOids}
    \cup {ToUpper(Encode(n)) : n \in FirstId("piratecrew") \cup FirstId("event")}
    \cup MalformedIds

CrewInputs ==
  { [name |-> "Buggy Pirates", sea |-> "East Blue", crew_of_month |-> TRUE],
    [name |-> "Nameless", sea |-> "", crew_of_month |-> FALSE] }

BountyInputs == {0 - 1, 30000}
LimitInputs == {None, Some(0 - 5), Some(0 - 1), Some(0), Some(2), Some(10)}
SeaInputs == {None, Some(""), Some("East Blue"), Some("East")}
FlagInputs == {None, Some(TRUE), Some(FALSE)}
StatusInputs == {None, Some(""), Some("upcoming")}

\* The store stays reachable for the whole request (None) or becomes
\* unreachable after k of the request's store calls succeeded (Some(k)).
OutageInputs == {None, Some(0), Some(1)}
SeedOutageInputs == {None, Some(6)}

\* the store call number calls+1 of a request succeeds
CallOk(calls, outage) == db # "none" /\ (outage = None \/ calls < outage[1])

\* ------------------------------------------------------------------
\* db[coll].find_one({"_id": ObjectId(s)}) as the handlers evaluate it:
\* db[coll] (TypeError when db is None), then ObjectId(s) (InvalidId), then
\* the call itself (ServerSelectionTimeoutError when unreachable).
\* accesses counts the calls sent to the store.
\* ------------------------------------------------------------------
FindOneByIdStoreFirst(docs, s, reachable) ==
  IF db = "none" THEN [raised |-> "TypeError", accesses |-> 0, found |-> <<>>]
  ELSE IF ~reachable
    THEN [raised |-> "ServerSelectionTimeoutError", accesses |-> 1, found |-> <<>>]
  ELSE IF ~ObjectIdValid(s) THEN [raised |-> "InvalidId", accesses |-> 1, found |-> <<>>]
  ELSE [raised |-> "", accesses |-> 1, found |-> Find(docs, [_id |-> Decode(s)])]
FindOneById(docs, s, reachable) ==
  IF db = "none" THEN [raised |-> "TypeError", accesses |-> 0, found |-> <<>>]
  ELSE IF ~ObjectIdValid(s) THEN [raised |-> "InvalidId", accesses |-> 0, found |-> <<>>]
  ELSE IF ~reachable
    THEN [raised |-> "ServerSelectionTimeoutError", accesses |-> 1, found |-> <<>>]
  ELSE [raised |-> "", accesses |-> 1, found |-> Find(docs, [_id |-> Decode(s)])]

\* ------------------------------------------------------------------
\* The response reaches the caller
\* ------------------------------------------------------------------
Deliver ==
  /\ resp # NoResp
  /\ resp' = NoResp
  /\ UNCHANGED <<store, nextOid, db, seedCalls, apiCreates, seedFailures, seedDone>>

\* ------------------------------------------------------------------
\* create_marine, create_crew, create_event: one create_document call
\* ------------------------------------------------------------------
CreateSimple(op, coll, data) ==
  /\ resp = NoResp
  /\ apiCreates < MaxApiCreates
  /\ \E reachable \in BOOLEAN :
       IF db # "none" /\ reachable
       THEN /\ store' = [store EXCEPT ![coll] = create_document(@, data, nextOid)]
            /\ nextOid' = nextOid + 1
            /\ apiCreates' = apiCreates + 1
            /\ resp' = [op |-> op, status |-> 200, id |-> Encode(nextOid), before |-> store]
       ELSE /\ resp' = [op |-> op, status |-> 500, before |-> store]
            /\ UNCHANGED <<store, nextOid, apiCreates>>
  /\ UNCHANGED <<db, seedCalls, seedFailures, seedDone>>

create_marine ==
  CreateSimple("create_marine", "marine", [name |-> "Monkey D. Garp", rank |-> "Vice Admiral"])

create_crew == \E c \in CrewInputs : CreateSimple("create_crew", "piratecrew", c)

create_event ==
  CreateSimple("create_event", "event", [title |-> "Reverie", status |-> "ongoing"])

\* ------------------------------------------------------------------
\* create_member: validation, crew lookup, then insert
\* ------------------------------------------------------------------
\* the insert is reached only past the lookup
CreateMemberInsertsAnyway(raised, found) == TRUE
CreateMemberInserts(raised, found) == raised = "" /\ found # <<>>

CreateMemberStatus(raised, found) ==
  IF raised # "" THEN 400          \* except Exception
  ELSE IF found = <<>> THEN 404    \* if not crew
  ELSE 200

create_member ==
  /\ resp = NoResp
  /\ apiCreates < MaxApiCreates
  /\ \E cid \in IdInputs, b \in BountyInputs, outage \in OutageInputs :
       LET member == [crew_id |-> cid, name |-> "Buggy", bounty |-> b]
           r == FindOneById(store["piratecrew"], cid, CallOk(0, outage))
           st == CreateMemberStatus(r.raised, r.found)
           base == [op |-> "create_member", member |-> member, outage |-> outage,
                    before |-> store]
       IN IF b < 0     \* Field(0, ge=0): rejected before the handler runs
          THEN /\ resp' = base @@ [status |-> 422, raised |-> "ValidationError",
                                   accesses |-> 0]
               /\ UNCHANGED <<store, nextOid, apiCreates>>
          ELSE IF ~CreateMemberInserts(r.raised, r.found)
          THEN /\ resp' = base @@ [status |-> st, raised |-> r.raised,
                                   accesses |-> r.accesses]
               /\ UNCHANGED <<store, nextOid, apiCreates>>
          ELSE IF ~CallOk(1, outage)   \* create_document raises
          THEN /\ resp' = base @@ [status |-> 500,
                                   raised |-> "ServerSelectionTimeoutError",
                                   accesses |-> r.accesses + 1]
               /\ UNCHANGED <<store, nextOid, apiCreates>>
          ELSE /\ store' = [store EXCEPT !["piratemember"] =
                               create_document(@, member, nextOid)]
               /\ nextOid' = nextOid + 1
               /\ apiCreates' = apiCreates + 1
               /\ resp' = base @@ [status |-> st, raised |-> r.raised,
                                   accesses |-> r.accesses + 1, id |-> Encode(nextOid)]
  /\ UNCHANGED <<db, seedCalls, seedFailures, seedDone>>

\* ------------------------------------------------------------------
\* get_crew: crew lookup, then the members of the crew
\* ------------------------------------------------------------------
\* filter of the second read
CrewMembersQuery(crew) == [crew_id |-> crew["id"]]

\* crew["members"] = [to_str_id(m) for m in members]
AttachMembersIfAny(crew, members) ==
  IF members = <<>> THEN crew
  ELSE [k \in DOMAIN crew \cup {"members"} |->
          IF k = "members" THEN NormalizeAll(members) ELSE crew[k]]
AttachMembers(crew, members) ==
  [k \in DOMAIN crew \cup {"members"} |->
     IF k = "members" THEN NormalizeAll(members) ELSE crew[k]]

get_crew ==
  /\ resp = NoResp
  /\ \E cid \in IdInputs, outage \in OutageInputs :
       LET r == FindOneById(store["piratecrew"], cid, CallOk(0, outage))
           base == [op |-> "get_crew", arg |-> cid, outage |-> outage, before |-> store]
       IN resp' =
            IF r.raised # ""       \* except Exception
            THEN base @@ [status |-> 400, raised |-> r.raised, accesses |-> r.accesses]
            ELSE IF r.found = <<>> \* if not doc
            THEN base @@ [status |-> 404, raised |-> "", accesses |-> r.accesses]
            ELSE IF ~CallOk(1, outage)   \* the second read is outside the try
            THEN base @@ [status |-> 500, raised |-> "ServerSelectionTimeoutError",
                          accesses |-> r.accesses + 1]
            ELSE LET crew == to_str_id(r.found[1])
                     members == Find(store["piratemember"], CrewMembersQuery(crew))
                 IN base @@ [status |-> 200, raised |-> "", accesses |-> r.accesses + 1,
                             body |-> AttachMembers(crew, members)]
  /\ UNCHANGED <<store, nextOid, db, seedCalls, apiCreates, seedFailures, seedDone>>

\* ------------------------------------------------------------------
\* get_event
\* ------------------------------------------------------------------
get_event ==
  /\ resp = NoResp
  /\ \E eid \in IdInputs, outage \in {None, Some(0)} :
       LET r == FindOneById(store["event"], eid, CallOk(0, outage))
           base == [op |-> "get_event", arg |-> eid, outage |-> outage, before |-> store]
       IN resp' =
            IF r.raised # ""
            THEN base @@ [status |-> 400, raised |-> r.raised, accesses |-> r.accesses]
            ELSE IF r.found = <<>>
            THEN base @@ [status |-> 404, raised |-> "", accesses |-> r.accesses]
            ELSE base @@ [status |-> 200, raised |-> "", accesses |-> r.accesses,
                          body |-> to_str_id(r.found[1])]
  /\ UNCHANGED <<store, nextOid, db, seedCalls, apiCreates, seedFailures, seedDone>>

\* ------------------------------------------------------------------
\* List endpoints: the filters they build
\* ------------------------------------------------------------------
StrTruthy(o) == o # None /\ o[1] # ""
IdTruthy(o) == o # None /\ o[1] # <<>>

ListCrewsQueryTruthyFlag(sea, crew_of_month) ==
  [k \in (IF StrTruthy(sea) THEN {"sea"} ELSE {})
           \cup (IF crew_of_month # None /\ crew_of_month[1] THEN {"crew_of_month"} ELSE {}) |->
     IF k = "sea" THEN sea[1] ELSE crew_of_month[1]]
ListCrewsQuery(sea, crew_of_month) ==
  [k \in (IF StrTruthy(sea) THEN {"sea"} ELSE {})
           \cup (IF crew_of_month # None THEN {"crew_of_month"} ELSE {}) |->
     IF k = "sea" THEN sea[1] ELSE crew_of_month[1]]

ListMembersQuery(crew_id) ==
  IF IdTruthy(crew_id) THEN [crew_id |-> crew_id[1]] ELSE <<>>

ListEventsQuery(status) ==
  IF StrTruthy(status) THEN [status |-> status[1]] ELSE <<>>

ListHandler(op, coll, args, q, limit) ==
  /\ resp = NoResp
  /\ \E reachable \in BOOLEAN :
       resp' = IF db # "none" /\ reachable
               THEN [op |-> op, args |-> args, status |-> 200,
                     body |-> NormalizeAll(get_documents(store[coll], q, limit))]
               ELSE [op |-> op, args |-> args, status |-> 500]
  /\ UNCHANGED <<store, nextOid, db, seedCalls, apiCreates, seedFailures, seedDone>>

list_marines ==
  \E limit \in {None, Some(1)} :
     ListHandler("list_marines", "marine", [limit |-> limit], <<>>, limit)

list_crews ==
  \E sea \in SeaInputs, com \in FlagInputs :
     ListHandler("list_crews", "piratecrew", [sea |-> sea, crew_of_month |-> com],
                 ListCrewsQuery(sea, com), None)

list_members ==
  \E cid \in {None, Some(<<>>)} \cup {Some(s) : s \in IdInputs} :
     ListHandler("list_members", "piratemember", [crew_id |-> cid],
                 ListMembersQuery(cid), None)

list_events ==
  \E st \in StatusInputs :
     ListHandler("list_events", "event", [status |-> st], ListEventsQuery(st), None)

\* ------------------------------------------------------------------
\* leaderboard
\* ------------------------------------------------------------------
\* limit: int = 10
LeaderboardLimit(limit) == IF limit = None THEN DefaultLeaderboardLimit ELSE limit[1]

\* db["piratemember"].find({}).sort("bounty", -1).limit(limit)
LeaderboardCursorUnsorted(docs, n, tieFirst) == CursorLimit(Find(docs, <<>>), n)
LeaderboardCursor(docs, n, tieFirst) ==
  CursorLimit(SortByBountyDesc(Find(docs, <<>>), tieFirst), n)

leaderboard ==
  /\ resp = NoResp
  /\ \E limit \in LimitInputs, tieFirst \in BOOLEAN, reachable \in BOOLEAN :
       resp' = IF db # "none" /\ reachable
               THEN [op |-> "leaderboard", limit |-> limit, status |-> 200,
                     body |-> NormalizeAll(
                       LeaderboardCursor(store["piratemember"], LeaderboardLimit(limit),
                                         tieFirst))]
               ELSE [op |-> "leaderboard", limit |-> limit, status |-> 500]
  /\ UNCHANGED <<store, nextOid, db, seedCalls, apiCreates, seedFailures, seedDone>>

\* ------------------------------------------------------------------
\* seed_data
\* ------------------------------------------------------------------
CreatedKey(coll) ==
  CASE coll = "marine" -> "marines"
    [] coll = "piratecrew" -> "crews"
    [] coll = "piratemember" -> "members"
    [] coll = "event" -> "events"

\* if force or db[coll].estimated_document_count() == 0
SeedGuardAlways(force, docs) == TRUE
SeedGuard(force, docs) == force \/ Len(docs) = 0

SeedFixturesShort(coll) ==
  CASE coll = "marine" -> MarineFixtures
    [] coll = "piratecrew" -> CrewFixtures
    [] coll = "piratemember" -> SubSeq(MemberFixtures, 1, Len(MemberFixtures) - 1)
    [] coll = "event" -> EventFixtures
SeedFixtures(coll) ==
  CASE coll = "marine" -> MarineFixtures
    [] coll = "piratecrew" -> CrewFixtures
    [] coll = "piratemember" -> MemberFixtures
    [] coll = "event" -> EventFixtures

\* PirateMember(crew_id=crew_map[...], name=..., bounty=...)
SeedMember(crew_ids, f) ==
  [crew_id |-> CrewMapGet(crew_ids, f.crew), name |-> f.name, bounty |-> f.bounty]

\* the handler's locals and its view of the store while it runs
SeedLocals ==
  [store |-> store, nextOid |-> nextOid,
   created |-> [marines |-> 0, crews |-> 0, members |-> 0, events |-> 0],
   crew_ids |-> <<>>, calls |-> 0, raised |-> FALSE]

\* for x in fixtures: create_document(coll, x); created[...] += 1
RECURSIVE SeedInsertAll(_, _, _, _)
SeedInsertAll(s, coll, i, outage) ==
  IF s.raised \/ i > Len(SeedFixtures(coll)) THEN s
  ELSE IF ~CallOk(s.calls, outage) THEN [s EXCEPT !.raised = TRUE, !.calls = @ + 1]
  ELSE LET f == SeedFixtures(coll)[i]
           data == IF coll = "piratemember" THEN SeedMember(s.crew_ids, f) ELSE f
       IN SeedInsertAll(
            [s EXCEPT !.store[coll] = create_document(@, data, s.nextOid),
                      !.nextOid = @ + 1,
                      !.calls = @ + 1,
                      !.created[CreatedKey(coll)] = @ + 1,
                      !.crew_ids = IF coll = "piratecrew"
                                   THEN Append(@, <<f.name, Encode(s.nextOid)>>)
                                   ELSE @],
            coll, i + 1, outage)

SeedBody(s, coll, outage) ==
  IF coll = "piratecrew"
  THEN SeedInsertAll(SeedInsertAll(s, "piratecrew", 1, outage), "piratemember", 1, outage)
  ELSE SeedInsertAll(s, coll, 1, outage)

SeedPhase(s, coll, force, outage) ==
  IF s.raised THEN s
  ELSE IF force THEN SeedBody(s, coll, outage)     \* the count is not evaluated
  ELSE IF ~CallOk(s.calls, outage) THEN [s EXCEPT !.raised = TRUE, !.calls = @ + 1]
  ELSE LET s1 == [s EXCEPT !.calls = @ + 1]
       IN IF SeedGuard(force, s1.store[coll]) THEN SeedBody(s1, coll, outage) ELSE s1

SeedRun(force, outage) ==
  SeedPhase(SeedPhase(SeedPhase(SeedLocals, "marine", force, outage),
                      "piratecrew", force, outage),
            "event", force, outage)

seed_data ==
  /\ resp = NoResp
  /\ seedCalls < MaxSeedCalls
  /\ \E force \in BOOLEAN, outage \in SeedOutageInputs :
       LET s == SeedRun(force, outage)
       IN /\ s.raised /\ db # "none" => seedFailures < MaxSeedFailures
          /\ store' = s.store
          /\ nextOid' = s.nextOid
          /\ seedFailures' = IF s.raised /\ db # "none" THEN seedFailures + 1
                             ELSE seedFailures
          /\ seedDone' = (seedDone \/ ~s.raised)
          /\ resp' = [op |-> "seed_data", force |-> force,
                      status |-> IF s.raised THEN 500 ELSE 200,
                      created |-> s.created, outage |-> outage,
                      before |-> store, afterDone |-> seedDone]
  /\ seedCalls' = seedCalls + 1
  /\ UNCHANGED <<db, apiCreates>>

\* ------------------------------------------------------------------
Writes ==
  \/ create_marine \/ create_crew \/ create_event \/ create_member
  \/ seed_data
  \/ Deliver

Lookups == get_crew \/ get_event
Lists == list_marines \/ list_crews \/ list_members \/ list_events

Next == Writes \/ Lookups \/ Lists \/ leaderboard
NextLookup == Writes \/ Lookups
NextList == Writes \/ Lists
NextLeaderboard == Writes \/ leaderboard

\* every handler
Spec == Init /\ [][Next]_vars
\* the write handlers with one family of read handlers
SpecLookup == Init /\ [][NextLookup]_vars
SpecList == Init /\ [][NextList]_vars
SpecLeaderboard == Init /\ [][NextLeaderboard]_vars

\* ==================================================================
\* Properties
\* ==================================================================
IsPrefix(a, b) == Len(a) <= Len(b) /\ SubSeq(b, 1, Len(a)) = a

\* b is the API form of the stored document d
IsNormalized(b, d) ==
  /\ DOMAIN b = (DOMAIN d \ {"_id"}) \cup {"id"}
  /\ b["id"] = Encode(d["_id"])
  /\ \A k \in DOMAIN d \ {"_id"} : b[k] = d[k]

AllNormalized(body, docs) ==
  /\ Len(body) = Len(docs)
  /\ \A i \in 1..Len(docs) : IsNormalized(body[i], docs[i])

\* the identifier string a lookup response answers
RespId == IF resp.op = "create_member" THEN resp.member.crew_id ELSE resp.arg
IsLookup == resp.op \in {"get_crew", "get_event", "create_member"} /\ resp.status # 422

\* C1: create_member inserts only after the crew lookup succeeded: a malformed
\* crew_id gives 400 and a well-formed crew_id that matches no stored crew gives
\* 404 (once the store answered the lookup), both with the store unchanged; and
\* whenever the store changed, the crew_id decodes to a stored crew and exactly
\* one member was appended.
C1_InsertOnlyAfterLookup ==
  (resp.op = "create_member" /\ resp.status # 422) =>
    LET cid == resp.member.crew_id
        crews == resp.before["piratecrew"]
        matches == ObjectIdValid(cid)
                     /\ \E i \in 1..Len(crews) : crews[i]["_id"] = Decode(cid)
        answered == CallOk(0, resp.outage)
    IN /\ (~ObjectIdValid(cid)) => (resp.status = 400 /\ store = resp.before)
       /\ (ObjectIdValid(cid) /\ ~matches /\ answered)
            => (resp.status = 404 /\ store = resp.before)
       /\ (store # resp.before) =>
            /\ matches /\ answered /\ resp.status = 200
            /\ \A c \in Collections \ {"piratemember"} : store[c] = resp.before[c]
            /\ Len(store["piratemember"]) = Len(resp.before["piratemember"]) + 1
            /\ IsPrefix(resp.before["piratemember"], store["piratemember"])

\* C1 witness: a well-formed crew_id that matches none of the stored crews is answered 404
C1_Witness ==
  /\ resp.op = "create_member"
  /\ resp.status = 404
  /\ ObjectIdValid(resp.member.crew_id)
  /\ store["piratecrew"] # <<>>

\* C2: a malformed identifier given to get_crew, get_event or create_member is
\* answered 400 without any call to the store, and the store is unchanged.
C2_MalformedIdNoStoreAccess ==
  (IsLookup /\ ~ObjectIdValid(RespId)) =>
    (resp.status = 400 /\ resp.accesses = 0 /\ store = resp.before)

\* C2 witness: a malformed event id is answered while the store is unreachable
C2_Witness ==
  /\ IsLookup
  /\ resp.op = "get_event"
  /\ ~ObjectIdValid(RespId)
  /\ db = "client"
  /\ resp.outage = Some(0)
  /\ store["event"] # <<>>

\* C3: with a well-formed identifier and the store unreachable (or db None),
\* get_crew, get_event and create_member never answer 400 or 404.
C3_StoreFailureIsServerError ==
  (IsLookup /\ ObjectIdValid(RespId) /\ ~CallOk(0, resp.outage)) =>
    resp.status \notin {400, 404}

\* C4: a seed_data call with force=false inserts nothing into a collection that
\* was non-empty when the call started, and a force=false call made after some
\* seed_data call returned reports zero created records of every kind.
C4_SeedOnlyIntoEmpty ==
  (resp.op = "seed_data" /\ ~resp.force) =>
    /\ \A c \in Collections :
         (resp.before[c] # <<>>) =>
           (store[c] = resp.before[c] /\ resp.created[CreatedKey(c)] = 0)
    /\ (resp.afterDone /\ resp.status = 200) =>
         resp.created = [marines |-> 0, crews |-> 0, members |-> 0, events |-> 0]

\* C4 witness: a second force=false run returns on a store that holds members
C4_Witness ==
  /\ resp.op = "seed_data"
  /\ ~resp.force
  /\ resp.afterDone
  /\ resp.status = 200
  /\ resp.before["piratemember"] # <<>>

\* documents of collection c inserted by the request answered by resp
NewDocs(c) == SubSeq(store[c], Len(resp.before[c]) + 1, Len(store[c]))

\* C5: a returned seed_data call with force=false on a non-empty marine
\* collection inserts no marine; a returned call with force=true reports
\* 2 marines, 3 crews, 5 members, 2 events, keeps every earlier document in
\* place and appends exactly the fixture documents, each member referring to
\* the crew of its fixture inserted by the same call.
C5_SeedForceInsertsFixtures ==
  (resp.op = "seed_data" /\ resp.status = 200) =>
    /\ (~resp.force /\ resp.before["marine"] # <<>>) =>
         (store["marine"] = resp.before["marine"] /\ resp.created.marines = 0)
    /\ resp.force =>
         /\ resp.created = [marines |-> 2, crews |-> 3, members |-> 5, events |-> 2]
         /\ \A c \in Collections : IsPrefix(resp.before[c], store[c])
         /\ Len(NewDocs("marine")) = 2
         /\ Len(NewDocs("piratecrew")) = 3
         /\ Len(NewDocs("piratemember")) = 5
         /\ Len(NewDocs("event")) = 2
         /\ \A i \in 1..2 : NewDocs("marine")[i].name = MarineFixtures[i].name
         /\ \A i \in 1..3 : /\ NewDocs("piratecrew")[i].name = CrewFixtures[i].name
                            /\ NewDocs("piratecrew")[i].sea = CrewFixtures[i].sea
         /\ \A i \in 1..2 : NewDocs("event")[i].title = EventFixtures[i].title
         /\ \A i \in 1..5 :
              /\ NewDocs("piratemember")[i].name = MemberFixtures[i].name
              /\ NewDocs("piratemember")[i].bounty = MemberFixtures[i].bounty
              /\ \E j \in 1..3 :
                   /\ NewDocs("piratecrew")[j].name = MemberFixtures[i].crew
                   /\ NewDocs("piratemember")[i].crew_id =
                        Encode(NewDocs("piratecrew")[j]["_id"])

\* C5 witness: a force=true run returns on a store that already held marines and members
C5_Witness ==
  /\ resp.op = "seed_data"
  /\ resp.force
  /\ resp.status = 200
  /\ resp.before["marine"] # <<>>
  /\ resp.before["piratemember"] # <<>>

\* body holds n of the stored members (or all, if fewer), normalized, in
\* non-increasing bounty order, and no member left out has a larger bounty
\* than the last one returned
TopMembers(body, n) ==
  LET members == store["piratemember"]
      Returned(j) == \E i \in 1..Len(body) : body[i]["id"] = Encode(members[j]["_id"])
  IN /\ Len(body) = Min(n, Len(members))
     /\ \A i \in 1..Len(body) : \E j \in 1..Len(members) : IsNormalized(body[i], members[j])
     /\ \A i, k \in 1..Len(body) : i # k => body[i]["id"] # body[k]["id"]
     /\ \A i \in 1..(Len(body) - 1) : body[i].bounty >= body[i + 1].bounty
     /\ \A j \in 1..Len(members) :
          (~Returned(j)) => (body # <<>> /\ members[j].bounty <= body[Len(body)].bounty)

\* C6: leaderboard with no limit or a non-positive limit returns what limit=10
\* returns: the (at most) 10 members with the highest bounties.
C6_NonPositiveLimitDefaults ==
  (resp.op = "leaderboard" /\ resp.status = 200
     /\ (resp.limit = None \/ resp.limit[1] <= 0)) =>
    TopMembers(resp.body, 10)

\* C7: leaderboard(n) with n > 0 returns min(n, number of stored members)
\* normalized members in non-increasing bounty order, and every member left
\* out has a bounty no larger than the smallest bounty returned.
C7_LeaderboardTopN ==
  (resp.op = "leaderboard" /\ resp.status = 200
     /\ resp.limit # None /\ resp.limit[1] > 0) =>
    TopMembers(resp.body, resp.limit[1])

\* C7 witness: leaderboard(2) answers over more than five stored members
C7_Witness ==
  /\ resp.op = "leaderboard"
  /\ resp.status = 200
  /\ resp.limit = Some(2)
  /\ Len(resp.body) = 2
  /\ Len(store["piratemember"]) > 5

\* C8: get_crew with the encoded identifier of a stored crew (store reachable)
\* answers 200; every 200 answer is the normalized crew plus a members field,
\* always present, holding exactly the normalized stored members whose crew_id
\* string equals the crew's encoded identifier, in stored order.
C8_CrewWithMembers ==
  (resp.op = "get_crew") =>
    LET crews == store["piratecrew"]
        Mine(m) == m.crew_id = resp.body["id"]
    IN /\ (resp.status = 200) =>
            /\ "members" \in DOMAIN resp.body
            /\ \E i \in 1..Len(crews) :
                 /\ ObjectIdValid(resp.arg) /\ Decode(resp.arg) = crews[i]["_id"]
                 /\ IsNormalized([k \in DOMAIN resp.body \ {"members"} |-> resp.body[k]],
                                 crews[i])
            /\ AllNormalized(resp.body["members"], SelectSeq(store["piratemember"], Mine))
       /\ ((\E i \in 1..Len(crews) : resp.arg = Encode(crews[i]["_id"]))
             /\ db = "client" /\ resp.outage = None) =>
            (resp.status = 200 /\ resp.body["id"] = resp.arg)

\* C8 witness: a crew without members is returned while other crews have members
C8_Witness ==
  /\ resp.op = "get_crew"
  /\ resp.status = 200
  /\ resp.body["members"] = <<>>
  /\ store["piratemember"] # <<>>

\* a supplied filter value constrains the result; emptyCounts says whether an
\* empty string is a value like any other
Constrains(o, empty, emptyCounts) == o # None /\ (emptyCounts \/ o[1] # empty)

ListIsExactMatch(emptyCounts) ==
  /\ (resp.op = "list_crews" /\ resp.status = 200) =>
       LET Keep(d) ==
             /\ Constrains(resp.args.sea, "", emptyCounts) => d.sea = resp.args.sea[1]
             /\ (resp.args.crew_of_month # None) =>
                  d.crew_of_month = resp.args.crew_of_month[1]
       IN AllNormalized(resp.body, SelectSeq(store["piratecrew"], Keep))
  /\ (resp.op = "list_members" /\ resp.status = 200) =>
       LET Keep(d) ==
             Constrains(resp.args.crew_id, <<>>, emptyCounts) =>
               d.crew_id = resp.args.crew_id[1]
       IN AllNormalized(resp.body, SelectSeq(store["piratemember"], Keep))
  /\ (resp.op = "list_events" /\ resp.status = 200) =>
       LET Keep(d) ==
             Constrains(resp.args.status, "", emptyCounts) =>
               d.status = resp.args.status[1]
       IN AllNormalized(resp.body, SelectSeq(store["event"], Keep))

\* C9 (as stated): list_crews, list_members and list_events return exactly the
\* stored documents whose field equals every supplied value, the empty string
\* and false included.
C9_EverySuppliedValueFilters == ListIsExactMatch(TRUE)

\* C9 (amended): list_crews, list_members and list_events return exactly the
\* stored documents whose field equals every supplied non-empty string value
\* and the supplied crew_of_month value (true or false); an absent field and an
\* empty string constrain nothing.
C9_NonEmptyValueFilters == ListIsExactMatch(FALSE)

\* C9 witness: list_crews with sea="" and crew_of_month=false returns some crews, not all
C9_Witness ==
  /\ resp.op = "list_crews"
  /\ resp.status = 200
  /\ resp.args.sea = Some("")
  /\ resp.args.crew_of_month = Some(FALSE)
  /\ resp.body # <<>>
  /\ Len(resp.body) < Len(store["piratecrew"])

\* C10: every stored member's crew_id equals the encoded identifier of some
\* stored crew (so members exist only if crews exist).
C10_ReferentialIntegrity ==
  \A i \in 1..Len(store["piratemember"]) :
    \E j \in 1..Len(store["piratecrew"]) :
      store["piratemember"][i].crew_id = Encode(store["piratecrew"][j]["_id"])

====
